---- MODULE Spec2Model ----
(***************************************************************************)
(* fitsrs: decoding of a FITS primary header and data unit from a byte     *)
(* slice (src/src/lib.rs, Fits::from_bytes_slice).                         *)
(*                                                                         *)
(* The input buffer is a header block (80-byte records, padded to a        *)
(* multiple of 2880 bytes) followed by the data bytes.  The header         *)
(* assembler (primary_header.rs), the card tokenizer (card_value.rs) and   *)
(* the error type (error.rs) are not part of the available sources; they   *)
(* are modelled from the specification text.  Everything in lib.rs is      *)
(* modelled from the code.                                                 *)
(***************************************************************************)
EXTENDS Integers, Sequences, FiniteSets, TLC

\* ------------------------------------------------------------------ bounds

\* Width in bits of the machine-word index type (usize).  Scaled down from
\* 64 so that the overflow cases are reachable with small numbers.
UsizeBits == 16

\* Largest axis count NAXIS generated for the enumerated headers.
MaxNaxis == 2

\* Longest data block generated for the enumerated buffers, in bytes.
MaxDataLen == 40

\* ---------------------------------------------------------------- constants

\* Fixed width of one header record, in bytes.
RecordLen == 80

\* Block unit the header block is padded to, in bytes (36 records).
BlockLen == 2880

\* ---------------------------------------------------------- word arithmetic

RECURSIVE Pow2(_)
Pow2(n) == IF n = 0 THEN 1 ELSE 2 * Pow2(n - 1)

UsizeModulus == Pow2(UsizeBits)

UsizeMax == UsizeModulus - 1

IsizeMax == Pow2(UsizeBits - 1) - 1

\* a * b does not fit the word (the exact product is never formed).
MulOverflows(a, b) == a # 0 /\ b > UsizeMax \div a

\* a * b modulo 2^UsizeBits, by doubling, so no intermediate exceeds 3 * 2^w.
RECURSIVE WrappingMul(_, _)
WrappingMul(a, b) ==
    IF b = 0 THEN 0
    ELSE (2 * WrappingMul(a, b \div 2) + (b % 2) * a) % UsizeModulus

\* usize `*`: with overflow checks (debug profile) an overflow panics, without
\* them (release profile) the product wraps.
UsizeMul(a, b, checks) ==
    IF MulOverflows(a, b)
    THEN IF checks THEN [panic |-> TRUE, val |-> 0]
         ELSE [panic |-> FALSE, val |-> WrappingMul(a, b)]
    ELSE [panic |-> FALSE, val |-> a * b]

\* ------------------------------------------------------------------ options

None == [some |-> FALSE, val |-> 0]

Some(v) == [some |-> TRUE, val |-> v]

\* ------------------------------------------------------------- header cards

\* Keyword of the axis-size card of 1-based axis k: "NAXIS1", "NAXIS2", ...
AxisName(k) == "NAXIS" \o ToString(k)

\* Largest axis index a keyword suffix is recognised for.
MaxAxisIdx == MaxNaxis + 1

\* The numeric type codes of BITPIX and the variant each maps to.
BitpixCodes == {8, 16, 32, 64, -32, -64}

BitpixValue(code) ==
    CASE code = 8 -> "U8"
      [] code = 16 -> "I16"
      [] code = 32 -> "I32"
      [] code = 64 -> "I64"
      [] code = -32 -> "F32"
      [] code = -64 -> "F64"

\* Card tokenizer: one raw record [kw, val] to a (name, typed card) pair, or an
\* error kind.
ParseCard(c) ==
    IF c.kw = "SIMPLE"
    THEN [ok |-> TRUE, end |-> FALSE, card |-> <<"SIMPLE", [type |-> "Simple"]>>]
    ELSE IF c.kw = "BITPIX"
    THEN IF c.val \in BitpixCodes
         THEN [ok |-> TRUE, end |-> FALSE,
               card |-> <<"BITPIX", [type |-> "Bitpix", value |-> BitpixValue(c.val)]>>]
         ELSE [ok |-> FALSE, err |-> "UnsupportedTypeCode"]
    ELSE IF c.kw = "NAXIS"
    THEN IF c.val >= 0
         THEN [ok |-> TRUE, end |-> FALSE,
               card |-> <<"NAXIS", [type |-> "Naxis", value |-> c.val]>>]
         ELSE [ok |-> FALSE, err |-> "MalformedCard"]
    ELSE IF \E k \in 1..MaxAxisIdx : c.kw = AxisName(k)
    THEN LET k == CHOOSE j \in 1..MaxAxisIdx : c.kw = AxisName(j)
         IN  IF c.val >= 0 /\ c.val <= UsizeMax
             THEN [ok |-> TRUE, end |-> FALSE,
                   card |-> <<c.kw, [type |-> "NaxisSize", name |-> c.kw,
                                     idx |-> k, size |-> c.val]>>]
             ELSE [ok |-> FALSE, err |-> "MalformedCard"]
    ELSE IF c.kw = "END"
    THEN [ok |-> TRUE, end |-> TRUE]
    ELSE [ok |-> TRUE, end |-> FALSE, card |-> <<c.kw, [type |-> "Other"]>>]

\* The cards of a given type, in order.
CardsOfType(cards, t) == SelectSeq(cards, LAMBDA p : p[2].type = t)

\* Length of the header block holding n records, padded to the block unit.
PaddedLen(n) == ((n * RecordLen + BlockLen - 1) \div BlockLen) * BlockLen

\* The cards kept from the records before record i.
CardsBefore(raw, i) == [j \in 1..(i - 1) |-> ParseCard(raw[j]).card]

\* Header assembler, one record: what record i does to the scan, given that
\* the records before it were all kept.  "keep" appends the card, "done" ends
\* the header, anything else is the error that aborts the parse.
ScanRecord(raw, i) ==
    LET r == ParseCard(raw[i])
        cards == CardsBefore(raw, i)
        naxis == CardsOfType(cards, "Naxis")
        sizes == CardsOfType(cards, "NaxisSize")
    IN  IF ~r.ok THEN r.err
        ELSE IF r.end
        THEN IF /\ Len(CardsOfType(cards, "Simple")) >= 1
                /\ Len(CardsOfType(cards, "Bitpix")) >= 1
                /\ Len(naxis) >= 1
                /\ Len(sizes) = naxis[1][2].value
             THEN "done"
             ELSE "MissingMandatoryCard"
        ELSE IF i = 1 /\ r.card[2].type # "Simple"
        THEN "HeaderOrdering"
        ELSE IF /\ r.card[2].type \in {"Bitpix", "Naxis"}
                /\ Len(CardsOfType(cards, "Simple")) = 0
        THEN "HeaderOrdering"
        ELSE IF /\ r.card[2].type = "NaxisSize"
                /\ \/ Len(naxis) = 0
                   \/ r.card[2].idx \notin 1..naxis[1][2].value
                   \/ \E j \in 1..Len(sizes) : sizes[j][2].idx = r.card[2].idx
        THEN "HeaderOrdering"
        ELSE "keep"

\* Header assembler: scans the records in order up to the first one that is
\* not kept.  Returns the ordered cards and the consumed length, or the error;
\* a buffer that ends before the end-of-header record is incomplete.
Assemble(raw) ==
    LET kept(i) == \A j \in 1..i : ScanRecord(raw, j) = "keep"
        stops == {i \in 1..Len(raw) : kept(i - 1) /\ ~kept(i)}
    IN  IF stops = {} THEN [ok |-> FALSE, err |-> "Incomplete"]
        ELSE LET i == CHOOSE j \in stops : TRUE
                 what == ScanRecord(raw, i)
             IN  IF what = "done"
                 THEN [ok |-> TRUE, cards |-> CardsBefore(raw, i), consumed |-> PaddedLen(i)]
                 ELSE [ok |-> FALSE, err |-> what]

Reverse(s) == [i \in 1..Len(s) |-> s[Len(s) + 1 - i]]

\* Mutant: the cards are pushed to the front of the list instead of the back.
PrimaryHeaderNew_reversed(raw) ==
    LET r == Assemble(raw)
    IN  IF r.ok THEN [r EXCEPT !.cards = Reverse(@)] ELSE r

\* PrimaryHeader::new on a buffer whose header records are raw.
PrimaryHeaderNew(raw) == Assemble(raw)

\* PrimaryHeader::get_naxis
GetNaxis(cards) == CardsOfType(cards, "Naxis")[1][2].value

\* PrimaryHeader::get_bitpix
GetBitpix(cards) == CardsOfType(cards, "Bitpix")[1][2].value

\* PrimaryHeader::get_axis_size, as Fits::from_bytes_slice calls it: the
\* argument counts the axes from 0 and the card looked up is NAXIS<idx + 1>.
GetAxisSize(cards, idx) ==
    LET hit == SelectSeq(cards, LAMBDA p : p[2].type = "NaxisSize" /\ p[1] = AxisName(idx + 1))
    IN  IF Len(hit) = 0 THEN None ELSE Some(hit[1][2].size)

\* ------------------------------------------------------------- input buffer

\* The input is the header records followed, when the header is terminated,
\* by padding up to the block unit and then the data bytes.
HasEnd(raw) == \E i \in 1..Len(raw) : raw[i].kw = "END"

EndRecord(raw) == CHOOSE i \in 1..Len(raw) : raw[i].kw = "END" /\ \A j \in 1..(i - 1) : raw[j].kw # "END"

\* Offset of the first data byte in the input.
DataOffset(in) == IF HasEnd(in.raw) THEN PaddedLen(EndRecord(in.raw)) ELSE Len(in.raw) * RecordLen

InputLen(in) == DataOffset(in) + (IF HasEnd(in.raw) THEN Len(in.data) ELSE 0)

\* A slice of the input at or after the data offset: [off, len], off absolute.
SliceBytes(in, s) == [i \in 1..s.len |-> in.data[s.off - DataOffset(in) + i]]

\* ------------------------------------------------------------ nom parsers

\* nom::bytes::streaming::take(count)(buf): Incomplete when buf is too short.
Take(s, count) ==
    IF s.len < count
    THEN [ok |-> FALSE, nom |-> "Incomplete"]
    ELSE [ok |-> TRUE, taken |-> [off |-> s.off, len |-> count],
          rest |-> [off |-> s.off + count, len |-> s.len - count]]

Whitespace == {32, 9, 13, 10}

RECURSIVE WsRun(_, _)
WsRun(bytes, i) ==
    IF i <= Len(bytes) /\ bytes[i] \in Whitespace THEN 1 + WsRun(bytes, i + 1) ELSE 0

\* nom::character::complete::multispace0(buf): never fails; the rest starts
\* after the leading run of spaces, tabs, carriage returns and line feeds.
Multispace0(in, s) ==
    LET n == WsRun(SliceBytes(in, s), 1)
    IN  [ok |-> TRUE, rest |-> [off |-> s.off + n, len |-> s.len - n]]

\* The conversion the `?` operator applies to a nom error: an Incomplete
\* becomes the incomplete-input kind, an Error or Failure a malformed-data kind.
FromNomErr(nom) == IF nom = "Incomplete" THEN "Incomplete" ELSE "MalformedCard"

\* ------------------------------------------------------- big-endian values

\* Values wider than 31 bits are kept as limbs, most significant first.
\* Mutant: the bytes read in little-endian order.
U16At_littleEndian(b, o) == b[o] + b[o + 1] * 256

U16At(b, o) == b[o] * 256 + b[o + 1]

I16At(b, o) == LET u == U16At(b, o) IN IF u >= 32768 THEN u - 65536 ELSE u

ReadI16(b, o) == I16At(b, o)

ReadI32(b, o) == I16At(b, o) * 65536 + U16At(b, o + 2)

\* i64 as [hi, mid, low]: hi * 2^32 + mid * 2^16 + low, hi signed.
ReadI64(b, o) == [hi |-> ReadI32(b, o), mid |-> U16At(b, o + 4), low |-> U16At(b, o + 6)]

\* f32 by its IEEE-754 fields (f32::from_bits of the big-endian u32).
ReadF32(b, o) ==
    [sign |-> b[o] \div 128,
     exponent |-> (b[o] % 128) * 2 + b[o + 1] \div 128,
     fraction |-> (b[o + 1] % 128) * 65536 + U16At(b, o + 2)]

\* f64 by its IEEE-754 fields; the 52-bit fraction as limbs of 20, 16, 16 bits.
ReadF64(b, o) ==
    [sign |-> b[o] \div 128,
     exponent |-> (b[o] % 128) * 16 + b[o + 1] \div 16,
     fraction |-> <<(b[o + 1] % 16) * 65536 + U16At(b, o + 2),
                    U16At(b, o + 4), U16At(b, o + 6)>>]

\* std::mem::size_of::<Self::Item>()
SizeOf(variant) ==
    CASE variant = "U8" -> 1
      [] variant = "I16" -> 2
      [] variant = "I32" -> 4
      [] variant = "I64" -> 8
      [] variant = "F32" -> 4
      [] variant = "F64" -> 8

ReadOne(variant, b, o) ==
    CASE variant = "I16" -> ReadI16(b, o)
      [] variant = "I32" -> ReadI32(b, o)
      [] variant = "I64" -> ReadI64(b, o)
      [] variant = "F32" -> ReadF32(b, o)
      [] variant = "F64" -> ReadF64(b, o)

\* vec![Item::default(); num_items]: the allocation panics (capacity overflow)
\* when its byte size exceeds isize::MAX.
VecPanics(variant, num_items) ==
    MulOverflows(num_items, SizeOf(variant)) \/ num_items * SizeOf(variant) > IsizeMax

\* BigEndian::read_*_into(src, dst): panics unless src.len() = size * dst.len();
\* otherwise dst[i] is the value of the i-th chunk of src.
ReadInto(variant, bytes, num_items) ==
    IF Len(bytes) # SizeOf(variant) * num_items
    THEN [panic |-> TRUE]
    ELSE [panic |-> FALSE,
          values |-> [i \in 1..num_items |-> ReadOne(variant, bytes, (i - 1) * SizeOf(variant) + 1)]]

\* DataUnit::new of each implementation.
DataUnitNew(variant, bytes, num_items) ==
    IF variant = "U8" THEN [panic |-> FALSE, values |-> bytes]
    ELSE IF VecPanics(variant, num_items) THEN [panic |-> TRUE]
    ELSE ReadInto(variant, bytes, num_items)

\* DataUnit::parse(buf, num_items)
DataUnitParse(in, variant, s, num_items, checks) ==
    LET num_bytes == UsizeMul(num_items, SizeOf(variant), checks)
    IN  IF num_bytes.panic THEN [out |-> "panic", msg |-> "multiply overflow"]
        ELSE LET t == Take(s, num_bytes.val)
             IN  IF ~t.ok THEN [out |-> "err", err |-> FromNomErr(t.nom)]
                 ELSE LET d == DataUnitNew(variant, SliceBytes(in, t.taken), num_items)
                      IN  IF d.panic THEN [out |-> "panic", msg |-> "data unit"]
                          ELSE [out |-> "ok", taken |-> t.taken,
                                data |-> [variant |-> variant, values |-> d.values]]

\* ------------------------------------------------------------ shape resolver

\* The range 0..header.get_naxis() iterated by from_bytes_slice, in order.
AxisRange(naxis) == [i \in 1..naxis |-> i - 1]

\* .map(|idx| get_axis_size(idx).unwrap()).fold(1, |total, val| total * val)
RECURSIVE FoldAxes(_, _, _, _, _)
FoldAxes(cards, range, i, total, checks) ==
    IF i > Len(range) THEN [panic |-> "none", val |-> total]
    ELSE LET size == GetAxisSize(cards, range[i])
         IN  IF ~size.some THEN [panic |-> "unwrap", val |-> 0]
             ELSE LET m == UsizeMul(total, size.val, checks)
                  IN  IF m.panic THEN [panic |-> "multiply overflow", val |-> 0]
                      ELSE FoldAxes(cards, range, i + 1, m.val, checks)

\* Mutant: the fold starts from 0 instead of the multiplicative identity.
NumItems_foldFromZero(cards, checks) == FoldAxes(cards, AxisRange(GetNaxis(cards)), 1, 0, checks)

NumItems(cards, checks) == FoldAxes(cards, AxisRange(GetNaxis(cards)), 1, 1, checks)

\* The match on header.get_bitpix(): the DataType variant, and with it the
\* DataUnit implementation, chosen for each BitpixValue.
\* Mutant: the I32 arm builds the F32 variant.
DataTypeOf_swapped(bitpix) == IF bitpix = "I32" THEN "F32" ELSE bitpix

DataTypeOf(bitpix) ==
    CASE bitpix = "U8" -> "U8"
      [] bitpix = "I16" -> "I16"
      [] bitpix = "I32" -> "I32"
      [] bitpix = "I64" -> "I64"
      [] bitpix = "F32" -> "F32"
      [] bitpix = "F64" -> "F64"

\* Mutant: buf is rebound to the rest returned by multispace0.
DecodeBuf_afterWs(b, rest) == rest

\* The buffer handed to DataUnit::parse: the binding made from
\* PrimaryHeader::new; the result of multispace0 is dropped.
DecodeBuf(b, rest) == b

\* -------------------------------------------------------------------- state

VARIABLES
    input,      \* the buffer: [raw |-> header records, data |-> data bytes]
    checks,     \* whether the build has overflow checks (debug) or not (release)
    pc,         \* position in from_bytes_slice: start, shape, skip, decode, ok, err, panic
    header,     \* header.cards once PrimaryHeader::new returned Ok
    buf,        \* the slice bound by `let (buf, header) = PrimaryHeader::new(..)?`
    num_items,  \* the folded element count
    afterWs,    \* the rest returned by multispace0(buf), which the code drops
    handed,     \* the slice handed to DataUnit::parse
    taken,      \* the slice DataUnit::parse took with take(num_bytes)
    data,       \* the decoded data array: [variant, values]
    err         \* the error kind returned, or the panic message

vars == <<input, checks, pc, header, buf, num_items, afterWs, handed, taken, data, err>>

NoSlice == [off |-> 0, len |-> 0]

NoData == [variant |-> "none", values |-> <<>>]

\* ------------------------------------------------------------------- inputs

Card(kw, val) == [kw |-> kw, val |-> val]

AxisCards(sizes) == [k \in 1..Len(sizes) |-> Card(AxisName(k), sizes[k])]

\* An axis size large enough that two of them, or one times a width of 8,
\* overflow the word.
BigAxis == Pow2(UsizeBits - 3)

AxisSizes == {0, 1, 2, BigAxis}

\* Number of opaque cards that push the header into a second block.
ManyCards == 40

HeaderShapes ==
    {"plain", "comments", "swapped", "reversed", "long", "missing", "extra",
     "noend", "nosimple", "latesimple", "badcode"}

RawHeader(shape, code, sizes) ==
    LET n == Len(sizes)
        simple == Card("SIMPLE", 0)
        bitpix == Card("BITPIX", code)
        naxis == Card("NAXIS", n)
        end == Card("END", 0)
        comment == Card("COMMENT", 0)
    IN  CASE shape = "plain" -> <<simple, bitpix, naxis>> \o AxisCards(sizes) \o <<end>>
          [] shape = "comments" ->
                <<simple, comment, bitpix, naxis, comment>> \o AxisCards(sizes)
                    \o <<Card("HISTORY", 0), comment, end>>
          [] shape = "swapped" -> <<simple, naxis, bitpix>> \o AxisCards(sizes) \o <<end>>
          [] shape = "reversed" ->
                <<simple, bitpix, naxis>> \o Reverse(AxisCards(sizes)) \o <<end>>
          [] shape = "long" ->
                <<simple, bitpix, naxis>> \o AxisCards(sizes)
                    \o [i \in 1..ManyCards |-> comment] \o <<end>>
          [] shape = "missing" ->
                <<simple, bitpix, naxis>> \o SubSeq(AxisCards(sizes), 1, n - 1) \o <<end>>
          [] shape = "extra" ->
                <<simple, bitpix, naxis>> \o AxisCards(sizes)
                    \o <<Card(AxisName(n + 1), 1), end>>
          [] shape = "noend" -> <<simple, bitpix, naxis>> \o AxisCards(sizes)
          [] shape = "nosimple" -> <<bitpix, naxis>> \o AxisCards(sizes) \o <<end>>
          [] shape = "latesimple" -> <<bitpix, simple, naxis>> \o AxisCards(sizes) \o <<end>>
          [] shape = "badcode" ->
                <<simple, Card("BITPIX", code + 1), naxis>> \o AxisCards(sizes) \o <<end>>

\* Byte i of data pattern p.  Pattern "ws" starts with a run of whitespace,
\* pattern "high" has the top bit of most bytes set.
PatternByte(p, i) ==
    CASE p = "mixed" -> (i * 37 + 11) % 256
      [] p = "ws" -> IF i <= 3 THEN <<32, 10, 9>>[i] ELSE (i * 5) % 256
      [] p = "high" -> 255 - ((i * 3) % 128)

Patterns == {"mixed", "ws", "high"}

DataLens == {0, 3, 8, 16, 32, MaxDataLen}

DataOf(p, len) == [i \in 1..len |-> PatternByte(p, i)]

\* The 64 x 64 tile of 32-bit floats of tests::test_fits_tile.
TileSide == 64

TileInputs ==
    {[raw |-> RawHeader("plain", -32, <<TileSide, TileSide>>), data |-> DataOf("mixed", len)] :
        len \in {TileSide * TileSide * 4 - 1, TileSide * TileSide * 4}}

\* Well-formed headers of every type code and shape, over every data block.
PlainInputs ==
    {[raw |-> RawHeader("plain", code, sizes), data |-> DataOf(p, len)] :
        code \in BitpixCodes,
        sizes \in UNION {[1..n -> AxisSizes] : n \in 0..MaxNaxis},
        p \in Patterns, len \in DataLens}

\* The other header layouts, over fewer type codes, sizes and data blocks.
ShapedInputs ==
    {[raw |-> RawHeader(shape, code, sizes), data |-> DataOf("ws", len)] :
        shape \in HeaderShapes \ {"plain"}, code \in {8, -64},
        sizes \in UNION {[1..n -> {1, 2}] : n \in 0..MaxNaxis},
        len \in {0, 16}}

Init ==
    /\ \/ input \in PlainInputs
       \/ input \in ShapedInputs
       \/ input \in TileInputs
    /\ checks \in BOOLEAN
    /\ pc = "start"
    /\ header = <<>>
    /\ buf = NoSlice
    /\ num_items = 0
    /\ afterWs = NoSlice
    /\ handed = NoSlice
    /\ taken = NoSlice
    /\ data = NoData
    /\ err = "none"

\* ------------------------------------------------------------------ actions

\* let (buf, header) = PrimaryHeader::new(&buf)?;
ParseHeader ==
    /\ pc = "start"
    /\ LET r == PrimaryHeaderNew(input.raw)
       IN  IF r.ok
           THEN /\ header' = r.cards
                /\ buf' = [off |-> r.consumed, len |-> InputLen(input) - r.consumed]
                /\ pc' = "shape"
                /\ err' = err
           ELSE /\ pc' = "err"
                /\ err' = r.err
                /\ UNCHANGED <<header, buf>>
    /\ UNCHANGED <<input, checks, num_items, afterWs, handed, taken, data>>

\* let num_items = (0..header.get_naxis()).map(..).fold(1, ..);
ResolveShape ==
    /\ pc = "shape"
    /\ LET r == NumItems(header, checks)
       IN  IF r.panic = "none"
           THEN /\ num_items' = r.val
                /\ pc' = "skip"
                /\ err' = err
           ELSE /\ pc' = "panic"
                /\ err' = r.panic
                /\ num_items' = num_items
    /\ UNCHANGED <<input, checks, header, buf, afterWs, handed, taken, data>>

\* multispace0(buf)?;
SkipWhitespace ==
    /\ pc = "skip"
    /\ LET r == Multispace0(input, buf)
       IN  IF r.ok
           THEN /\ afterWs' = r.rest
                /\ pc' = "decode"
                /\ err' = err
           ELSE /\ pc' = "err"
                /\ err' = FromNomErr(r.nom)
                /\ afterWs' = afterWs
    /\ UNCHANGED <<input, checks, header, buf, num_items, handed, taken, data>>

\* let data = match header.get_bitpix() { .. => ..::parse(buf, num_items)? };
\* Ok(Fits { header, data })
Decode ==
    /\ pc = "decode"
    /\ handed' = DecodeBuf(buf, afterWs)
    /\ LET r == DataUnitParse(input, DataTypeOf(GetBitpix(header)), handed', num_items, checks)
       IN  IF r.out = "ok"
           THEN /\ data' = r.data
                /\ taken' = r.taken
                /\ pc' = "ok"
                /\ err' = err
           ELSE /\ pc' = r.out
                /\ err' = IF r.out = "err" THEN r.err ELSE r.msg
                /\ UNCHANGED <<data, taken>>
    /\ UNCHANGED <<input, checks, header, buf, num_items, afterWs>>

Next == ParseHeader \/ ResolveShape \/ SkipWhitespace \/ Decode

Spec == Init /\ [][Next]_vars

\* ================================================================== claims

\* What the input declares, read from its records (not through the parser).
RawCard(kw) == LET i == CHOOSE j \in 1..Len(input.raw) : input.raw[j].kw = kw IN input.raw[i]

DeclaredCode == RawCard("BITPIX").val

DeclaredNaxis == RawCard("NAXIS").val

DeclaredSize(k) == RawCard(AxisName(k)).val

\* a1 * a2 * ... * ak as a mathematical integer.
RECURSIVE DeclaredProduct(_)
DeclaredProduct(k) == IF k = 0 THEN 1 ELSE DeclaredProduct(k - 1) * DeclaredSize(k)

ElementCount == DeclaredProduct(DeclaredNaxis)

CodeVariant(code) ==
    CASE code = 8 -> "U8" [] code = 16 -> "I16" [] code = 32 -> "I32"
      [] code = 64 -> "I64" [] code = -32 -> "F32" [] code = -64 -> "F64"

VariantWidth(variant) ==
    CASE variant = "U8" -> 1 [] variant = "I16" -> 2 [] variant = "I32" -> 4
      [] variant = "I64" -> 8 [] variant = "F32" -> 4 [] variant = "F64" -> 8

CodeWidth(code) ==
    CASE code = 8 -> 1 [] code = 16 -> 2 [] code = 32 -> 4
      [] code = 64 -> 8 [] code = -32 -> 4 [] code = -64 -> 8

\* PrimaryHeader::new returned Ok.
HeaderParsed == header # <<>>

\* The fold of the axis sizes returned a count.
ShapeResolved == pc \in {"skip", "decode", "ok"} \/ handed # NoSlice

\* from_bytes_slice has returned or panicked.
Finished == pc \in {"ok", "err", "panic"}

\* The big-endian bytes of a decoded value, most significant first.
BytesOfInt(v, width) == [k \in 1..width |-> (v \div Pow2(8 * (width - k))) % 256]

EncodeBE(variant, v) ==
    CASE variant = "U8" -> <<v>>
      [] variant = "I16" -> BytesOfInt(v, 2)
      [] variant = "I32" -> BytesOfInt(v, 4)
      [] variant = "I64" -> BytesOfInt(v.hi, 4) \o BytesOfInt(v.mid, 2) \o BytesOfInt(v.low, 2)
      [] variant = "F32" ->
            <<v.sign * 128 + v.exponent \div 2,
              (v.exponent % 2) * 128 + v.fraction \div 65536>>
                \o BytesOfInt(v.fraction % 65536, 2)
      [] variant = "F64" ->
            <<v.sign * 128 + v.exponent \div 16,
              (v.exponent % 16) * 16 + v.fraction[1] \div 65536>>
                \o BytesOfInt(v.fraction[1] % 65536, 2)
                \o BytesOfInt(v.fraction[2], 2) \o BytesOfInt(v.fraction[3], 2)

\* Bytes [i*W, (i+1)*W) of the data block, i counted from 0.
DataChunk(i, width) == SubSeq(input.data, i * width + 1, (i + 1) * width)

\* C1: for every valid header with N >= 1 axes of sizes a1..aN the element
\* count is resolved to exactly a1 * ... * aN, and the decoder takes exactly
\* that many times W bytes from the first byte of the data block, its result
\* depending on those bytes only.
C1_CountIsProductOfAxes ==
    (HeaderParsed /\ DeclaredNaxis >= 1) =>
        /\ ShapeResolved => num_items = ElementCount
        /\ pc = "ok" =>
            /\ taken = [off |-> DataOffset(input), len |-> ElementCount * CodeWidth(DeclaredCode)]
            /\ Len(data.values) = ElementCount
            /\ \A i \in 1..ElementCount :
                 EncodeBE(data.variant, data.values[i]) = DataChunk(i - 1, CodeWidth(DeclaredCode))

\* C2: when the header is valid and fewer bytes than element count times
\* element width follow the header block, the parse returns the
\* incomplete-input error: never Ok, never a malformed-data error.
C2_TruncatedIsIncomplete ==
    (HeaderParsed /\ Finished /\ Len(input.data) < ElementCount * CodeWidth(DeclaredCode)) =>
        (pc = "err" /\ err = "Incomplete")

\* C3: when the product of the axis sizes, or the byte length, exceeds the
\* range of the word, the parse fails with an arithmetic-overflow error and
\* never goes on with a wrapped count or length.
C3_OverflowIsAnError ==
    (/\ HeaderParsed
     /\ \/ ElementCount > UsizeMax
        \/ ElementCount * CodeWidth(DeclaredCode) > UsizeMax) =>
        /\ ElementCount > UsizeMax => ~ShapeResolved
        /\ pc \notin {"ok", "panic"}
        /\ pc = "err" => err = "ArithmeticOverflow"

\* C4, as stated: for every valid header of axis count 0 the element count
\* is exactly 1 and the parse returns Ok with a data array of one element.
C4_ZeroAxesAlwaysOk ==
    (HeaderParsed /\ DeclaredNaxis = 0) =>
        /\ ShapeResolved => num_items = 1
        /\ Finished => (pc = "ok" /\ Len(data.values) = 1)

\* C4, amended: for every valid header of axis count 0 the element count is
\* exactly 1 and nothing panics; the parse returns Ok with a data array of
\* exactly one element when at least one element's width of bytes follows the
\* header block, and the incomplete-input error otherwise.
C4_ZeroAxesOneElement ==
    (HeaderParsed /\ DeclaredNaxis = 0) =>
        /\ pc # "panic"
        /\ ShapeResolved => num_items = 1
        /\ pc = "ok" =>
            /\ Len(data.values) = 1
            /\ Len(input.data) >= CodeWidth(DeclaredCode)
        /\ pc = "err" =>
            /\ err = "Incomplete"
            /\ Len(input.data) < CodeWidth(DeclaredCode)

\* Witness of C4: a header of axis count 0 decoded to one 64-bit element.
C4_Witness ==
    /\ pc = "ok"
    /\ DeclaredNaxis = 0
    /\ DeclaredCode = 64
    /\ Len(data.values) = 1

\* C5: a successful decode of N elements of width W holds exactly N values,
\* and value i is the big-endian reading of bytes [i*W, (i+1)*W) of the data
\* block: writing each value back most significant byte first gives those
\* bytes; for the unsigned 8-bit code the values are the input bytes.
C5_ValuesAreBigEndianChunks ==
    pc = "ok" =>
        LET width == VariantWidth(data.variant)
        IN  /\ Len(data.values) = num_items
            /\ \A i \in 1..num_items :
                 EncodeBE(data.variant, data.values[i]) = DataChunk(i - 1, width)
            /\ data.variant = "U8" => data.values = SubSeq(input.data, 1, num_items)

\* Witness of C5: two or more 16-bit values decoded, the first negative and
\* made of two different bytes.
C5_Witness ==
    /\ pc = "ok"
    /\ data.variant = "I16"
    /\ num_items >= 2
    /\ data.values[1] < 0
    /\ input.data[1] # input.data[2]

\* C6: the variant of the returned data array and its element width are
\* fixed by the BITPIX code alone: 8 U8/1, 16 I16/2, 32 I32/4, 64 I64/8,
\* -32 F32/4, -64 F64/8.
C6_VariantFollowsTypeCode ==
    pc = "ok" =>
        /\ data.variant = CodeVariant(DeclaredCode)
        /\ taken.len = num_items * CodeWidth(DeclaredCode)

\* Witness of C6: a header of type code 32 decoded to a 32-bit integer array.
C6_Witness ==
    /\ pc = "ok"
    /\ DeclaredCode = 32
    /\ data.variant = "I32"
    /\ num_items >= 1

\* The typed card a record stands for, by its keyword.
ExpectedCard(c) ==
    IF c.kw = "SIMPLE" THEN <<c.kw, [type |-> "Simple"]>>
    ELSE IF c.kw = "BITPIX" THEN <<c.kw, [type |-> "Bitpix", value |-> CodeVariant(c.val)]>>
    ELSE IF c.kw = "NAXIS" THEN <<c.kw, [type |-> "Naxis", value |-> c.val]>>
    ELSE IF \E k \in 1..MaxAxisIdx : c.kw = AxisName(k)
    THEN <<c.kw, [type |-> "NaxisSize", name |-> c.kw,
                  idx |-> CHOOSE k \in 1..MaxAxisIdx : c.kw = AxisName(k), size |-> c.val]>>
    ELSE <<c.kw, [type |-> "Other"]>>

\* The cards tests::test_fits_tile expects.
TileCards ==
    << <<"SIMPLE", [type |-> "Simple"]>>,
       <<"BITPIX", [type |-> "Bitpix", value |-> "F32"]>>,
       <<"NAXIS", [type |-> "Naxis", value |-> 2]>>,
       <<"NAXIS1", [type |-> "NaxisSize", name |-> "NAXIS1", idx |-> 1, size |-> 64]>>,
       <<"NAXIS2", [type |-> "NaxisSize", name |-> "NAXIS2", idx |-> 2, size |-> 64]>> >>

IsTileHeader ==
    /\ Len(input.raw) = 6
    /\ [i \in 1..6 |-> input.raw[i].kw] = <<"SIMPLE", "BITPIX", "NAXIS", "NAXIS1", "NAXIS2", "END">>
    /\ input.raw[2].val = -32
    /\ input.raw[3].val = 2
    /\ input.raw[4].val = 64
    /\ input.raw[5].val = 64

\* C7: after a successful parse header.cards is the (keyword, typed card)
\* pairs of the input's records in input order, the end-of-header record not
\* among them, each axis-size card with its keyword, 1-based index and size;
\* SIMPLE, BITPIX = -32, NAXIS = 2, NAXIS1 = 64, NAXIS2 = 64, END gives
\* exactly those five cards.
C7_CardsInInputOrder ==
    pc = "ok" =>
        /\ Len(header) = EndRecord(input.raw) - 1
        /\ \A i \in 1..Len(header) : header[i] = ExpectedCard(input.raw[i])
        /\ IsTileHeader => header = TileCards

\* Witness of C7: the tile of the test parsed.
C7_Witness ==
    /\ pc = "ok"
    /\ IsTileHeader
    /\ header = TileCards

\* C8: when header assembly succeeds the header has consumed a positive
\* multiple of 2880 bytes, the records up to the end-of-header record plus
\* less than one block of padding, and the buffer handed to the data decoder
\* starts at exactly that offset and runs to the end of the input.
C8_DataStartsOnBlockBoundary ==
    HeaderParsed =>
        /\ buf.off > 0
        /\ buf.off % 2880 = 0
        /\ buf.off >= EndRecord(input.raw) * RecordLen
        /\ buf.off - EndRecord(input.raw) * RecordLen < 2880
        /\ handed # NoSlice =>
            /\ handed.off = buf.off
            /\ handed.len = InputLen(input) - buf.off

\* Witness of C8: a header of two blocks, followed by data that starts with
\* whitespace, decoded.
C8_Witness ==
    /\ pc = "ok"
    /\ buf.off = 2 * 2880
    /\ handed.len >= 1
    /\ input.data[1] \in Whitespace

\* C9: the data decoder reads from the position after the run of whitespace
\* found where the header assembler stopped, not from the position before it.
C9_DecoderStartsAfterWhitespace ==
    handed # NoSlice => handed = afterWs

\* C10: once PrimaryHeader::new returned Ok, get_axis_size returns a value for
\* every index of 0 .. get_naxis(), the unwrap does not panic, and the run
\* ends in Ok or Err, never in a crash.
C10_NoCrashAfterValidHeader ==
    HeaderParsed =>
        /\ \A idx \in 0..(GetNaxis(header) - 1) : GetAxisSize(header, idx).some
        /\ err # "unwrap"
        /\ pc # "panic"

====
